---- MODULE Spec2Model ----
(***************************************************************************)
(* Model of the Bitbucket input plugin (package bitbucket):                *)
(*   - paginatedGet, the cursor-following paginator;                       *)
(*   - getTeamMembers / getRepos, the entity resolvers;                    *)
(*   - getUserPRs / getReposPRs / getPRs, the fan-out collector;           *)
(*   - accumulatePRs / getPRFields / getPRTags, the record reducer;        *)
(*   - Gather, the plugin entry point.                                     *)
(* The model follows src/unnamed/part_001; where src/unnamed/part_002 and  *)
(* src/plugins/inputs/bitbucket/bitbucket.go differ in the repository path *)
(* and in paginatedGet, the variable `version` selects their code.         *)
(* Process 0 is the goroutine that runs Gather; processes 1..MaxEntities   *)
(* are the goroutines started by `go bb.getPRs(...)`.                      *)
(***************************************************************************)
EXTENDS Integers, Sequences, FiniteSets, TLC

\* ------------------------------------------------------------- bounds ---
\* Longest cursor chain the server serves (pages per paginatedGet call).
MaxPages == 2
\* Most raw records the server puts on one page.
MaxRecs == 2
\* Most entities (team members / repositories) a listing resolves to.
MaxEntities == 3
\* Most pull-request records on one page of a pull-request listing.
MaxPRs == 1
\* Longest participant list of a pull request handed to getPRFields.
MaxParticipants == 3
\* Latest reading of the wall clock, in ticks after the start of Gather.
MaxTime == 2
\* Most calls of Gather on one Bitbucket value.
MaxCalls == 2

VARIABLES
    pc,          \* pc[p]: where goroutine p is
    reqArgs,     \* reqArgs[p]: the arguments (reqURL, fields, pagelen) of p's paginatedGet call
    currURL,     \* currURL[p]: paginatedGet's local currURL
    values,      \* values[p]: paginatedGet's local accumulator
    reqs,        \* reqs[p]: the requests p handed to bb.client.Do, in order (history)
    resps,       \* resps[p]: the responses p received, in order (history)
    pgRet,       \* pgRet[p]: what p's paginatedGet call returned
    version,     \* which version of the plugin's source runs
    GatherType,  \* bb.GatherType
    client,      \* bb.client
    entities,    \* the members / repos slice Gather resolved
    launched,    \* how many `go bb.getPRs` statements the collector loop has executed
    wg,          \* the WaitGroup counter
    mtx,         \* the mutex: 0 when free, else the worker holding it
    parsedPRs,   \* parsedPRs[w]: getPRs' local slice
    prs,         \* the shared result slice (*out)
    errors,      \* the acc.AddError calls, in order
    emitted,     \* the acc.AddFields calls, in order
    now,         \* accumulatePRs' local now
    calls,       \* how many times Gather has been called on this Bitbucket value
    gatherRet,   \* what Gather returned
    pr,          \* the pull request handed to getPRFields (reducer harness)
    prFields     \* what getPRFields returned for it (reducer harness)

vars == <<pc, reqArgs, currURL, values, reqs, resps, pgRet, GatherType, client,
          entities, launched, wg, mtx, parsedPRs, prs, errors, emitted, gatherRet,
          version, now, calls, pr, prFields>>

pgVars == <<pc, reqArgs, currURL, values, reqs, resps, pgRet>>
gatherVars == <<GatherType, version, now, calls, client, entities, launched, wg, mtx,
                parsedPRs, prs, errors, emitted, gatherRet>>
fieldVars == <<pr, prFields>>

\* The versions of the plugin's source: src/unnamed/part_001 (the current
\* one), src/unnamed/part_002 and src/plugins/inputs/bitbucket/bitbucket.go.
Versions == {"part_001", "part_002", "bitbucket.go"}

Coord == 0
\* time.Now(): the readings the wall clock can give.
Times == 1..MaxTime

\* bb.OAuthKey, bb.OAuthSecret and bb.HTTPTimeout (init, line 337: 5 seconds).
OAuthKey == "key"
OAuthSecret == "secret"
HTTPTimeout == 5

\* bb.client before Gather has run.
NilClient == [isNil |-> TRUE]

\* newClient, lines 226-235: the client of conf.Client(ctx), an http.Client
\* whose Timeout is the zero value (no timeout).
newClient(key, secret) ==
    [isNil |-> FALSE, ClientID |-> key, ClientSecret |-> secret, Timeout |-> 0]
Workers == 1..MaxEntities
Procs == {Coord} \cup Workers

Min(a, b) == IF a < b THEN a ELSE b

RECURSIVE Flatten(_)
Flatten(ss) == IF ss = <<>> THEN <<>> ELSE Head(ss) \o Flatten(Tail(ss))

\* --------------------------------------------------------------- URLs ---
\* A URL is its path and its raw query, a sequence of <<key, value>> pairs in
\* the order they are written.  NoURL is the empty string; BadURL is a string
\* http.NewRequest cannot parse.
NoURL == [path |-> "", query |-> <<>>]
BadURL == [path |-> "%zz", query |-> <<>>]

\* The query keys the plugin and the server use, in the order url.Values.Encode
\* writes them (sorted by key).
SortedKeys == <<"fields", "page", "pagelen">>
Keys == {SortedKeys[i] : i \in DOMAIN SortedKeys}

\* req.URL.Query(): url.Values, each key's values in order of appearance.
Query(u) ==
    [k \in Keys |->
        LET hits == SelectSeq(u.query, LAMBDA kv : kv[1] = k)
        IN  [i \in 1..Len(hits) |-> hits[i][2]]]

\* url.Values.Get: the first value of the key, "" when there is none.
Get(q, k) == IF q[k] = <<>> THEN "" ELSE q[k][1]

\* url.Values.Add: append the value to the key's values.
Add(q, k, v) == [q EXCEPT ![k] = Append(@, v)]

\* url.Values.Encode: key=value pairs, sorted by key.
Encode(q) ==
    Flatten([i \in DOMAIN SortedKeys |->
                [j \in 1..Len(q[SortedKeys[i]]) |->
                    <<SortedKeys[i], q[SortedKeys[i]][j]>>]])

\* Mutant of AddParams: the parameters are added to the first page's request
\* only, a next cursor is requested as it is.
AddParamsFirstPageOnly(q, fields, pagelen) ==
    IF Get(q, "page") # "" THEN q
    ELSE LET q1 == IF Get(q, "pagelen") = "" THEN Add(q, "pagelen", pagelen) ELSE q
         IN  IF Get(q1, "fields") = "" THEN Add(q1, "fields", fields) ELSE q1

\* Mutant of AddParams: the caller's values are added even when present.
AddParamsAlways(q, fields, pagelen) ==
    Add(Add(q, "pagelen", pagelen), "fields", fields)

\* paginatedGet, lines 247-253: add pagelen / fields when q.Get gives "".
AddParams(q, fields, pagelen) ==
    LET q1 == IF Get(q, "pagelen") = "" THEN Add(q, "pagelen", pagelen) ELSE q
    IN  IF Get(q1, "fields") = "" THEN Add(q1, "fields", fields) ELSE q1

\* The request handed to bb.client.Do for currURL u.
BuildRequest(u, fields, pagelen) ==
    [path |-> u.path, query |-> Encode(AddParams(Query(u), fields, pagelen))]

\* How many key=... pairs a raw query holds.
Count(query, k) == Len(SelectSeq(query, LAMBDA kv : kv[1] = k))

\* ------------------------------------------------------------- server ---
\* The page numbers the server writes into its cursors.
PageNames == <<"1", "2", "3", "4", "5">>

\* The page a request asks for: its `page` parameter, page 1 without one
\* (as paginatedGetClientStub.Do tells the pages apart).
PageNo(req) ==
    LET v == Get(Query(req), "page")
    IN  IF v = "" THEN 1 ELSE CHOOSE i \in DOMAIN PageNames : PageNames[i] = v

\* A pagelen / fields parameter as a URL may carry it: absent, empty, or set.
OptVal(v) == {<<>>, <<"">>, <<v>>}
ParamStyles == [pagelen : OptVal("10"), fields : OptVal("f")]
PlainStyle == [pagelen |-> <<>>, fields |-> <<>>]

\* The URL of page `page` of `path`, written with the parameters of style st.
MkURL(path, page, st) ==
    [path  |-> path,
     query |-> [i \in 1..Len(st.pagelen) |-> <<"pagelen", st.pagelen[i]>>]
               \o (IF page = 1 THEN <<>> ELSE << <<"page", PageNames[page]>> >>)
               \o [i \in 1..Len(st.fields) |-> <<"fields", st.fields[i]>>]]

\* The i-th raw record (json.RawMessage) of a page; ok = FALSE is a record
\* json.Unmarshal rejects for the struct it is decoded into.
RawRecords(req, n, bad) ==
    [i \in 1..n |-> [src |-> req.path, page |-> PageNo(req), idx |-> i, ok |-> (i # bad)]]

\* An HTTP exchange as paginatedGet sees it: client.Do's error, the status
\* code, whether the body can be read, whether it is a page, and the page.
Response(doErr, code, readable, isPage, vals, next) ==
    [doErr |-> doErr, StatusCode |-> code, readable |-> readable, isPage |-> isPage,
     values |-> vals, next |-> next]

FailedResponses ==
    { Response(TRUE, 0, FALSE, FALSE, <<>>, NoURL),
      Response(FALSE, 199, TRUE, TRUE, <<>>, NoURL),
      Response(FALSE, 300, TRUE, TRUE, <<>>, NoURL),
      Response(FALSE, 200, FALSE, FALSE, <<>>, NoURL),
      Response(FALSE, 299, TRUE, FALSE, <<>>, NoURL) }

\* Every answer the server may give to req in the paginator harness; a page
\* has a next cursor only while the chain is shorter than MaxPages.
PagResponses(req, more) ==
    FailedResponses \cup
    { Response(FALSE, 200, TRUE, TRUE, RawRecords(req, n, 0), nx) :
        n \in 0..MaxRecs,
        nx \in {NoURL} \cup
               (IF more
                THEN {BadURL} \cup {MkURL(req.path, PageNo(req) + 1, st) : st \in ParamStyles}
                ELSE {}) }

\* ---------------------------------------------------------- paginator ---
NotReturned == [done |-> FALSE, isNil |-> TRUE, vals |-> <<>>, err |-> ""]
RetErr(e) == [done |-> TRUE, isNil |-> TRUE, vals |-> <<>>, err |-> e]
RetOK(v) == [done |-> TRUE, isNil |-> FALSE, vals |-> v, err |-> ""]

\* Mutant of HandleResponse: a failing page returns what was accumulated.
HandleResponsePartial(vals, resp) ==
    IF resp.doErr \/ resp.StatusCode < 200 \/ resp.StatusCode > 299
       \/ ~resp.readable \/ ~resp.isPage
    THEN [ret |-> [done |-> TRUE, isNil |-> FALSE, vals |-> vals, err |-> "error"],
          values |-> vals, next |-> NoURL]
    ELSE IF resp.next # NoURL
         THEN [ret |-> NotReturned, values |-> vals \o resp.values, next |-> resp.next]
         ELSE [ret |-> RetOK(vals \o resp.values), values |-> vals \o resp.values,
               next |-> NoURL]

\* Mutant of HandleResponse: each page replaces the accumulator.
HandleResponseLastPage(vals, resp) ==
    IF resp.doErr \/ resp.StatusCode < 200 \/ resp.StatusCode > 299
       \/ ~resp.readable \/ ~resp.isPage
    THEN [ret |-> RetErr("error"), values |-> vals, next |-> NoURL]
    ELSE IF resp.next # NoURL
         THEN [ret |-> NotReturned, values |-> resp.values, next |-> resp.next]
         ELSE [ret |-> RetOK(resp.values), values |-> resp.values, next |-> NoURL]

\* paginatedGet, lines 256-281: what one response does to the loop.  ret is
\* the call's return value when the loop ends here, NotReturned otherwise.
HandleResponse(vals, resp) ==
    IF resp.doErr
    THEN [ret |-> RetErr("transport"), values |-> vals, next |-> NoURL]
    ELSE IF resp.StatusCode < 200 \/ resp.StatusCode > 299
    THEN [ret |-> RetErr("status"), values |-> vals, next |-> NoURL]
    ELSE IF ~resp.readable
    THEN [ret |-> RetErr("body"), values |-> vals, next |-> NoURL]
    ELSE IF ~resp.isPage
    THEN [ret |-> RetErr("json"), values |-> vals, next |-> NoURL]
    ELSE LET v == vals \o resp.values
         IN  IF resp.next # NoURL
             THEN [ret |-> NotReturned, values |-> v, next |-> resp.next]
             ELSE [ret |-> RetOK(v), values |-> v, next |-> NoURL]

\* paginatedGet, lines 238-239: the call starts with currURL = reqURL and an
\* empty accumulator.
PgEnter(p, reqURL, fields, pagelen) ==
    /\ reqArgs' = [reqArgs EXCEPT ![p] = [reqURL |-> reqURL, fields |-> fields,
                                           pagelen |-> pagelen]]
    /\ currURL' = [currURL EXCEPT ![p] = reqURL]
    /\ values' = [values EXCEPT ![p] = <<>>]
    /\ reqs' = [reqs EXCEPT ![p] = <<>>]
    /\ resps' = [resps EXCEPT ![p] = <<>>]
    /\ pgRet' = [pgRet EXCEPT ![p] = NotReturned]
    /\ pc' = [pc EXCEPT ![p] = "send"]

\* Mutant of PgSend: once an error has been reported in the cycle, no
\* further request is issued and the call returns a cancellation error.
PgSendUnlessCancelled(p) ==
    /\ pc[p] = "send"
    /\ IF currURL[p] = BadURL \/ errors # <<>>
       THEN /\ pgRet' = [pgRet EXCEPT ![p] = RetErr("cancelled")]
            /\ pc' = [pc EXCEPT ![p] = "pgdone"]
            /\ reqs' = reqs
       ELSE /\ reqs' = [reqs EXCEPT ![p] =
                          Append(@, BuildRequest(currURL[p], reqArgs[p].fields,
                                                 reqArgs[p].pagelen))]
            /\ pc' = [pc EXCEPT ![p] = "wait"]
            /\ pgRet' = pgRet
    /\ UNCHANGED <<reqArgs, currURL, values, resps>>

\* paginatedGet, lines 242-256: build the request for currURL and hand it to
\* bb.client.Do; a URL http.NewRequest rejects ends the call with its error.
PgSend(p) ==
    /\ pc[p] = "send"
    /\ IF currURL[p] = BadURL
       THEN /\ pgRet' = [pgRet EXCEPT ![p] = RetErr("badurl")]
            /\ pc' = [pc EXCEPT ![p] = "pgdone"]
            /\ reqs' = reqs
       ELSE /\ reqs' = [reqs EXCEPT ![p] =
                          Append(@, BuildRequest(currURL[p], reqArgs[p].fields,
                                                 reqArgs[p].pagelen))]
            /\ pc' = [pc EXCEPT ![p] = "wait"]
            /\ pgRet' = pgRet
    /\ UNCHANGED <<reqArgs, currURL, values, resps>>

\* paginatedGet of bitbucket.go, lines 237-256: the rest of the loop body
\* after client.Do returned resp; the status code is not looked at.
HandleResponseBitbucketGo(vals, resp) ==
    IF resp.doErr THEN [ret |-> RetErr("transport"), values |-> vals, next |-> NoURL]
    ELSE IF ~resp.readable THEN [ret |-> RetErr("body"), values |-> vals, next |-> NoURL]
    ELSE IF ~resp.isPage THEN [ret |-> RetErr("json"), values |-> vals, next |-> NoURL]
    ELSE LET v == vals \o resp.values
         IN  IF resp.next # NoURL
             THEN [ret |-> NotReturned, values |-> v, next |-> resp.next]
             ELSE [ret |-> RetOK(v), values |-> v, next |-> NoURL]

\* The loop body of the paginatedGet of version v of the source.
HandleResponseOf(v, vals, resp) ==
    IF v = "bitbucket.go" THEN HandleResponseBitbucketGo(vals, resp)
    ELSE HandleResponse(vals, resp)

\* Mutant of PgRecv: the accumulator is one variable shared by all calls.
PgRecvSharedValues(p, resp) ==
    /\ pc[p] = "wait"
    /\ LET h == HandleResponseOf(version, values[p], resp)
       IN  /\ resps' = [resps EXCEPT ![p] = Append(@, resp)]
           /\ values' = [q \in Procs |-> h.values]
           /\ pgRet' = [pgRet EXCEPT ![p] = h.ret]
           /\ IF h.ret.done
              THEN /\ pc' = [pc EXCEPT ![p] = "pgdone"]
                   /\ currURL' = currURL
              ELSE /\ pc' = [pc EXCEPT ![p] = "send"]
                   /\ currURL' = [currURL EXCEPT ![p] = h.next]
    /\ UNCHANGED <<reqArgs, reqs>>

\* paginatedGet, lines 256-282: client.Do returns resp and the loop body runs
\* to its end: the call returns, or currURL becomes the page's next cursor.
PgRecv(p, resp) ==
    /\ pc[p] = "wait"
    /\ LET h == HandleResponseOf(version, values[p], resp)
       IN  /\ resps' = [resps EXCEPT ![p] = Append(@, resp)]
           /\ values' = [values EXCEPT ![p] = h.values]
           /\ pgRet' = [pgRet EXCEPT ![p] = h.ret]
           /\ IF h.ret.done
              THEN /\ pc' = [pc EXCEPT ![p] = "pgdone"]
                   /\ currURL' = currURL
              ELSE /\ pc' = [pc EXCEPT ![p] = "send"]
                   /\ currURL' = [currURL EXCEPT ![p] = h.next]
    /\ UNCHANGED <<reqArgs, reqs>>

LastReq(p) == reqs[p][Len(reqs[p])]

\* ------------------------------------------- paginator harness (SpecPag) ---
\* The seed URLs of the harness: page 1 of a listing, with or without
\* pagelen / fields parameters of its own, or a URL that does not parse.
SeedURLs == {MkURL("/items", 1, st) : st \in ParamStyles} \cup {BadURL}

\* The state before a call: every goroutine idle, nothing requested yet.
InitCommon ==
    /\ pc = [p \in Procs |-> "idle"]
    /\ reqArgs = [p \in Procs |-> [reqURL |-> NoURL, fields |-> "", pagelen |-> ""]]
    /\ currURL = [p \in Procs |-> NoURL]
    /\ values = [p \in Procs |-> <<>>]
    /\ reqs = [p \in Procs |-> <<>>]
    /\ resps = [p \in Procs |-> <<>>]
    /\ pgRet = [p \in Procs |-> NotReturned]
    /\ now = 0
    /\ calls = 1
    /\ client = NilClient
    /\ entities = <<>>
    /\ launched = 0
    /\ wg = 0
    /\ mtx = 0
    /\ parsedPRs = [w \in Workers |-> <<>>]
    /\ prs = <<>>
    /\ errors = <<>>
    /\ emitted = <<>>
    /\ gatherRet = "running"
    /\ pr = [Participants |-> <<>>]
    /\ prFields = [set |-> FALSE]

InitIdle ==
    /\ InitCommon
    /\ GatherType = ""
    /\ version = "part_001"

\* The same harness on the paginatedGet of bitbucket.go.
InitBitbucketGo ==
    /\ InitCommon
    /\ GatherType = ""
    /\ version = "bitbucket.go"

\* TestPaginatedGet: bb.paginatedGet(seed, "mahfields", "100").
PagCall ==
    /\ pc[Coord] = "idle"
    /\ \E seed \in SeedURLs, pl \in {"25", "100"} :
          PgEnter(Coord, seed, "mahfields", pl)
    /\ UNCHANGED <<gatherVars, fieldVars>>

PagSend ==
    /\ PgSend(Coord)
    /\ UNCHANGED <<gatherVars, fieldVars>>

PagRecv ==
    /\ pc[Coord] = "wait"
    /\ \E resp \in PagResponses(LastReq(Coord), Len(reqs[Coord]) < MaxPages) :
          PgRecv(Coord, resp)
    /\ UNCHANGED <<gatherVars, fieldVars>>

NextPag == PagCall \/ PagSend \/ PagRecv

SpecPag == InitIdle /\ [][NextPag]_vars

\* The paginator harness run on the paginatedGet of bitbucket.go.
SpecPagBitbucketGo == InitBitbucketGo /\ [][NextPag]_vars

\* ------------------------------------------------- paginator: claims ---
\* A response that is a well-formed page with a 2xx status.
IsPage(resp) ==
    /\ ~resp.doErr
    /\ resp.StatusCode >= 200 /\ resp.StatusCode =< 299
    /\ resp.readable /\ resp.isPage

AllPages(rs) == \A i \in DOMAIN rs : IsPage(rs[i])

\* The values of the pages rs, page after page.
PageValues(rs) == Flatten([i \in DOMAIN rs |-> rs[i].values])

\* The URL the i-th request of p was built from: the seed URL, then the next
\* cursor of the page before.
SourceURL(p, i) == IF i = 1 THEN reqArgs[p].reqURL ELSE resps[p][i - 1].next

IsPrefix(s, t) == Len(s) =< Len(t) /\ \A i \in DOMAIN s : s[i] = t[i]

\* The request goes to URL u: u's path, and u's own parameters first.
RequestTo(req, u) ==
    /\ req.path = u.path
    /\ Query(req)["page"] = Query(u)["page"]
    /\ \A k \in Keys : IsPrefix(Query(u)[k], Query(req)[k])

\* C1: a paginatedGet call that was served only well-formed 2xx pages has
\* returned only at a page with an empty next cursor (or at a cursor that is
\* no URL); at the empty cursor it returns, without error, the values of the
\* pages in the order they were served, after exactly one request per page,
\* the first to the seed URL and each later one to the previous page's next.
C1_Pagination ==
    LET p == Coord
        k == Len(resps[p])
    IN  (pgRet[p].done /\ k >= 1 /\ AllPages(resps[p])) =>
            IF resps[p][k].next = NoURL
            THEN /\ pgRet[p].err = "" /\ ~pgRet[p].isNil
                 /\ pgRet[p].vals = PageValues(resps[p])
                 /\ Len(reqs[p]) = k
                 /\ \A i \in 1..k : RequestTo(reqs[p][i], SourceURL(p, i))
                 /\ \A i \in 1..(k - 1) : resps[p][i].next # NoURL
            ELSE resps[p][k].next = BadURL /\ pgRet[p].err = "badurl"

\* C1 witness: a call returned the values of a chain of MaxPages pages.
C1_Witness ==
    /\ pgRet[Coord].done /\ pgRet[Coord].err = ""
    /\ Len(resps[Coord]) = MaxPages
    /\ \A i \in DOMAIN resps[Coord] : resps[Coord][i].values # <<>>
    /\ Len(pgRet[Coord].vals) > Len(resps[Coord][1].values)

\* C2 (as claimed): every request built from a URL that carries a pagelen
\* (a fields) parameter carries exactly one, with the URL's value.
C2_ParamsNotDuplicated ==
    \A i \in DOMAIN reqs[Coord] : \A k \in {"pagelen", "fields"} :
        Count(SourceURL(Coord, i).query, k) >= 1 =>
            /\ Count(reqs[Coord][i].query, k) = 1
            /\ Get(Query(reqs[Coord][i]), k) = Get(Query(SourceURL(Coord, i)), k)

\* C7: once a request of a call has failed (transport error, status outside
\* 200..299, unreadable body, body that is no page), it is the call's last
\* request, and the call has returned an error and a nil result.
C7_PaginatorFailure ==
    LET p == Coord
    IN  \A i \in DOMAIN resps[p] :
            ~IsPage(resps[p][i]) =>
                /\ i = Len(resps[p]) /\ Len(reqs[p]) = i
                /\ pc[p] = "pgdone"
                /\ pgRet[p].done /\ pgRet[p].err # ""
                /\ pgRet[p].isNil /\ pgRet[p].vals = <<>>

\* C7 witness: the second page failed after the first had brought values.
C7_Witness ==
    /\ Len(resps[Coord]) = 2
    /\ resps[Coord][1].values # <<>>
    /\ ~IsPage(resps[Coord][2])
    /\ pgRet[Coord].done

\* C16 (as claimed): in the paginatedGet of bitbucket.go, a page request
\* answered with a status outside 200..299 is the call's last request, and
\* the call has returned the status error and a nil result.
C16_StatusFailure ==
    LET p == Coord
    IN  \A i \in DOMAIN resps[p] :
            (~resps[p][i].doErr
                 /\ (resps[p][i].StatusCode < 200 \/ resps[p][i].StatusCode > 299)) =>
                /\ i = Len(resps[p]) /\ Len(reqs[p]) = i
                /\ pgRet[p].done /\ pgRet[p].err = "status"
                /\ pgRet[p].isNil /\ pgRet[p].vals = <<>>

\* The value the caller of p's paginatedGet call supplied for parameter k.
CallerValue(p, k) == IF k = "pagelen" THEN reqArgs[p].pagelen ELSE reqArgs[p].fields

\* C23: every request of a paginatedGet call, the first and every followed
\* page, carries a pagelen and a fields parameter; and where the URL that is
\* requested has none of its own, the one carried is the caller's value.
C23_ParamsOnEveryRequest ==
    LET p == Coord
    IN  \A i \in DOMAIN reqs[p] : \A k \in {"pagelen", "fields"} :
            /\ Count(reqs[p][i].query, k) >= 1
            /\ Count(SourceURL(p, i).query, k) = 0 =>
                  Query(reqs[p][i])[k] = <<CallerValue(p, k)>>

\* C23 witness: the second request of a call went to a next cursor that had
\* neither parameter, and carries the caller's values.
C23_Witness ==
    /\ Len(reqs[Coord]) = 2
    /\ Count(SourceURL(Coord, 2).query, "pagelen") = 0
    /\ Count(SourceURL(Coord, 2).query, "fields") = 0
    /\ Get(Query(reqs[Coord][2]), "pagelen") = reqArgs[Coord].pagelen
    /\ Get(Query(reqs[Coord][2]), "fields") = reqArgs[Coord].fields

\* The glyph getPRFields writes before an approved reviewer: "#" stands for
\* the one character U+2705.
ApprovedGlyph == "#"

\* The loop body without its test of the role.
ReviewStepAnyRole(acc, r) ==
    LET rv == IF acc.reviewers # "" THEN acc.reviewers \o ", " ELSE acc.reviewers
    IN  IF r.Approved
        THEN [reviewers |-> rv \o ApprovedGlyph \o r.User.DisplayName,
              approved  |-> (IF acc.approved # "" THEN acc.approved \o ", "
                             ELSE acc.approved) \o r.User.DisplayName,
              approvals |-> acc.approvals + 1]
        ELSE [acc EXCEPT !.reviewers = rv \o r.User.DisplayName]

\* getPRFields, lines 290-304: one iteration of the loop over p.Participants.
ReviewStep(acc, r) ==
    IF r.Role = "REVIEWER"
    THEN LET rv == IF acc.reviewers # "" THEN acc.reviewers \o ", " ELSE acc.reviewers
         IN  IF r.Approved
             THEN [reviewers |-> rv \o ApprovedGlyph \o r.User.DisplayName,
                   approved  |-> (IF acc.approved # "" THEN acc.approved \o ", "
                                  ELSE acc.approved) \o r.User.DisplayName,
                   approvals |-> acc.approvals + 1]
             ELSE [acc EXCEPT !.reviewers = rv \o r.User.DisplayName]
    ELSE acc

\* getPRFields, lines 286-305: the loop, from participant i on.
RECURSIVE ReviewLoop(_, _, _)
ReviewLoop(ps, i, acc) ==
    IF i > Len(ps) THEN acc ELSE ReviewLoop(ps, i + 1, ReviewStep(acc, ps[i]))

\* getPRFields, lines 285-325.
getPRFields(p) ==
    LET acc == ReviewLoop(p.Participants, 1,
                          [reviewers |-> "", approved |-> "", approvals |-> 0])
    IN  [id             |-> p.ID,
         title          |-> p.Title,
         pr_state       |-> p.State,
         comment_count  |-> p.CommentCount,
         task_count     |-> p.TaskCount,
         author         |-> p.Author.DisplayName,
         created_on     |-> p.CreatedOn.sec,
         updated_on     |-> p.UpdatedOn.sec,
         src_repo       |-> p.Source.Repository.Name,
         src_branch     |-> p.Source.Branch.Name,
         dest_repo      |-> p.Destination.Repository.Name,
         dest_branch    |-> p.Destination.Branch.Name,
         reviewers      |-> acc.reviewers,
         approved       |-> acc.approved,
         approval_count |-> acc.approvals,
         link           |-> p.Links.HTML.HREF]

\* getPRTags, lines 327-332.
getPRTags(p) == [state |-> p.State, source_repo |-> p.Source.Repository.Slug]

\* getPRFields of part_002, lines 279-292 (bitbucket.go, lines 262-275): one
\* iteration of the loop, which builds `reviewers` and `not_approved`.
ReviewStepOld(acc, r) ==
    IF r.Role = "REVIEWER"
    THEN LET rv == (IF acc.reviewers # "" THEN acc.reviewers \o ", " ELSE acc.reviewers)
                   \o r.User.DisplayName
         IN  IF ~r.Approved
             THEN [reviewers   |-> rv,
                   notApproved |-> (IF acc.notApproved # "" THEN acc.notApproved \o ", "
                                    ELSE acc.notApproved) \o r.User.DisplayName]
             ELSE [acc EXCEPT !.reviewers = rv]
    ELSE acc

RECURSIVE ReviewLoopOld(_, _, _)
ReviewLoopOld(ps, i, acc) ==
    IF i > Len(ps) THEN acc ELSE ReviewLoopOld(ps, i + 1, ReviewStepOld(acc, ps[i]))

\* getPRFields of part_002, lines 276-310.
getPRFieldsPart002(p) ==
    LET acc == ReviewLoopOld(p.Participants, 1, [reviewers |-> "", notApproved |-> ""])
    IN  [id            |-> p.ID,
         title         |-> p.Title,
         pr_state      |-> p.State,
         comment_count |-> p.CommentCount,
         author        |-> p.Author.DisplayName,
         created_on    |-> p.CreatedOn.sec,
         updated_on    |-> p.UpdatedOn.sec,
         src_repo      |-> p.Source.Repository.Name,
         src_branch    |-> p.Source.Branch.Name,
         dest_repo     |-> p.Destination.Repository.Name,
         dest_branch   |-> p.Destination.Branch.Name,
         reviewers     |-> acc.reviewers,
         not_approved  |-> acc.notApproved,
         link          |-> p.Links.HTML.HREF]

\* getPRFields of bitbucket.go, lines 259-292: the times as they are, no link.
getPRFieldsBitbucketGo(p) ==
    LET acc == ReviewLoopOld(p.Participants, 1, [reviewers |-> "", notApproved |-> ""])
    IN  [id            |-> p.ID,
         title         |-> p.Title,
         pr_state      |-> p.State,
         comment_count |-> p.CommentCount,
         author        |-> p.Author.DisplayName,
         created_on    |-> p.CreatedOn,
         updated_on    |-> p.UpdatedOn,
         src_repo      |-> p.Source.Repository.Name,
         src_branch    |-> p.Source.Branch.Name,
         dest_repo     |-> p.Destination.Repository.Name,
         dest_branch   |-> p.Destination.Branch.Name,
         reviewers     |-> acc.reviewers,
         not_approved  |-> acc.notApproved]

\* The getPRFields of version v of the source.
getPRFieldsOf(v, p) ==
    IF v = "part_002" THEN getPRFieldsPart002(p)
    ELSE IF v = "bitbucket.go" THEN getPRFieldsBitbucketGo(p)
    ELSE getPRFields(p)

\* A pullRequest value (part_000, lines 19-32) with the given id, listing
\* path and participants; the other fields as in pr.json of the tests.
PullRequest(id, href, parts) ==
    [ID |-> id, Title |-> "example-pr", State |-> "OPEN",
     CommentCount |-> 2, TaskCount |-> 1,
     Author |-> [DisplayName |-> "Example Dude", ID |-> ""],
     CreatedOn |-> [sec |-> 1581007908, nsec |-> 500],
     UpdatedOn |-> [sec |-> 1581007960, nsec |-> 0],
     Source |-> [Repository |-> [Name |-> "example-repo",
                                 FullName |-> "example-team/example-repo",
                                 Slug |-> "example-repo"],
                 Branch |-> [Name |-> "example_branch"]],
     Destination |-> [Repository |-> [Name |-> "example-repo",
                                      FullName |-> "example-team/example-repo",
                                      Slug |-> "example-repo"],
                      Branch |-> [Name |-> "master"]],
     Participants |-> parts,
     Links |-> [HTML |-> [HREF |-> href]]]

\* --------------------------------------------- reducer harness (SpecFields) ---
\* The display names, roles and participants the harness draws from.
DisplayNames == {"", "A", "B"}
Roles == {"REVIEWER", "PARTICIPANT"}
Participants ==
    [User : [DisplayName : DisplayNames, ID : {""}], Role : Roles, Approved : BOOLEAN]

\* The harness builds the participant list one participant at a time.
AddParticipant ==
    /\ ~prFields.set
    /\ Len(pr.Participants) < MaxParticipants
    /\ \E r \in Participants :
          pr' = [pr EXCEPT !.Participants = Append(@, r)]
    /\ UNCHANGED <<prFields, pgVars, gatherVars>>

\* TestGetPRFields: test := getPRFields(p).
CallGetPRFields ==
    /\ ~prFields.set
    /\ prFields' = [set |-> TRUE,
                    out |-> getPRFields(PullRequest(1, "https://example.com/testPR",
                                                    pr.Participants))]
    /\ UNCHANGED <<pr, pgVars, gatherVars>>

NextFields == AddParticipant \/ CallGetPRFields

SpecFields == InitIdle /\ [][NextFields]_vars

\* ---------------------------------------------------- reducer: claims ---
RECURSIVE JoinStrings(_)
\* strings.Join(ss, ", ").
JoinStrings(ss) ==
    IF ss = <<>> THEN ""
    ELSE IF Len(ss) = 1 THEN ss[1]
    ELSE ss[1] \o ", " \o JoinStrings(Tail(ss))

Reviewers(ps) == SelectSeq(ps, LAMBDA r : r.Role = "REVIEWER")

\* A reviewer as the `reviewers` field names them.
Marked(r) == IF r.Approved THEN ApprovedGlyph \o r.User.DisplayName
             ELSE r.User.DisplayName

ExpectedReviewers(ps) ==
    LET rs == Reviewers(ps) IN JoinStrings([i \in DOMAIN rs |-> Marked(rs[i])])

\* C10 (as claimed): for every participant list, display names that are the
\* empty string included, `reviewers` is the ", "-join, in order, of the
\* reviewers' names, each approved one prefixed by the glyph.
C10_ReviewersIsJoin ==
    prFields.set => prFields.out.reviewers = ExpectedReviewers(pr.Participants)

\* C10, where the code agrees with it: the same, whenever no reviewer that is
\* not approved has an empty display name.
C10_ReviewersIsJoinOfNonEmpty ==
    (prFields.set /\ \A i \in DOMAIN pr.Participants :
                        LET r == pr.Participants[i]
                        IN  (r.Role = "REVIEWER" /\ ~r.Approved) => r.User.DisplayName # "")
        => prFields.out.reviewers = ExpectedReviewers(pr.Participants)

\* The reviewers that approved, in participant order.
ApprovedReviewers(ps) == SelectSeq(ps, LAMBDA r : r.Role = "REVIEWER" /\ r.Approved)

ExpectedApproved(ps) ==
    LET rs == ApprovedReviewers(ps)
    IN  JoinStrings([i \in DOMAIN rs |-> rs[i].User.DisplayName])

\* C11 (as claimed): for every participant sequence, `approved` is the
\* ", "-join, in participant order, of the display names of the reviewers
\* that approved, and `approval_count` is the number of the names joined.
C11_ApprovedIsJoin ==
    prFields.set =>
        /\ prFields.out.approved = ExpectedApproved(pr.Participants)
        /\ prFields.out.approval_count = Len(ApprovedReviewers(pr.Participants))

\* The three fields the loop of getPRFields computes.
ReviewFields(out) == <<out.reviewers, out.approved, out.approval_count>>

ReviewFieldsOf(ps) ==
    ReviewFields(getPRFields(PullRequest(1, "https://example.com/testPR", ps)))

RemoveAt(ps, i) == SubSeq(ps, 1, i - 1) \o SubSeq(ps, i + 1, Len(ps))
InsertAt(ps, k, r) == SubSeq(ps, 1, k) \o <<r>> \o SubSeq(ps, k + 1, Len(ps))
FlipAt(ps, i) == [ps EXCEPT ![i].Approved = ~@]

\* C12: removing a participant that is not a reviewer, flipping its approval
\* flag, or inserting one at any position, changes none of `reviewers`,
\* `approved` and `approval_count`.
C12_NonReviewersIgnored ==
    prFields.set =>
        LET ps == pr.Participants
        IN  /\ \A i \in DOMAIN ps :
                  ps[i].Role # "REVIEWER" =>
                      /\ ReviewFieldsOf(RemoveAt(ps, i)) = ReviewFields(prFields.out)
                      /\ ReviewFieldsOf(FlipAt(ps, i)) = ReviewFields(prFields.out)
            /\ \A k \in 0..Len(ps) : \A r \in Participants :
                  r.Role # "REVIEWER" =>
                      ReviewFieldsOf(InsertAt(ps, k, r)) = ReviewFields(prFields.out)

\* getPRFields ran on an approved reviewer, then an approved participant that
\* is not a reviewer, then a reviewer.
C12_Witness ==
    /\ prFields.set
    /\ Len(pr.Participants) = 3
    /\ pr.Participants[1].Role = "REVIEWER" /\ pr.Participants[1].Approved
    /\ pr.Participants[2].Role # "REVIEWER" /\ pr.Participants[2].Approved
    /\ pr.Participants[2].User.DisplayName # ""
    /\ pr.Participants[3].Role = "REVIEWER"
    /\ prFields.out.approval_count = 1

\* ------------------------------------------------------------- Gather ---
\* bb.Owner, and the gather types a configuration may hold.
Owner == "owner"
GatherTypes == {"team", "user", "repos", "pepperoni"}

\* url.PathEscape on a member's UUID: the braces of "{...}" are escaped.
PathEscape(id) ==
    IF \E i, j \in DOMAIN PageNames : id = "{u" \o PageNames[i] \o PageNames[j] \o "}"
    THEN LET ij == CHOOSE ij \in (DOMAIN PageNames) \X (DOMAIN PageNames) :
                       id = "{u" \o PageNames[ij[1]] \o PageNames[ij[2]] \o "}"
         IN  "%7Bu" \o PageNames[ij[1]] \o PageNames[ij[2]] \o "%7D"
    ELSE id

\* json.Unmarshal(m, &currMember): the user of a raw record of the members
\* listing (only values.uuid is asked for).
UnmarshalUser(raw) ==
    [ID |-> "{u" \o PageNames[raw.page] \o PageNames[raw.idx] \o "}", DisplayName |-> ""]

\* json.Unmarshal(r, &currRepo): the repository of a raw record of the
\* repositories listing.
UnmarshalRepo(raw) ==
    LET n == "repo" \o PageNames[raw.page] \o PageNames[raw.idx]
    IN  [Name |-> n, FullName |-> Owner \o "/" \o n, Slug |-> n]

\* The participants of the pull requests the server serves (pr.json).
ServedParticipants ==
    << [User |-> [DisplayName |-> "A", ID |-> ""], Role |-> "REVIEWER", Approved |-> FALSE],
       [User |-> [DisplayName |-> "C", ID |-> ""], Role |-> "REVIEWER", Approved |-> TRUE] >>

\* json.Unmarshal(p, &currPR): the pull request of a raw record of a
\* pull-request listing; its link names the listing it was served from.
UnmarshalPR(raw) ==
    PullRequest(10 * raw.page + raw.idx,
                raw.src \o "/" \o PageNames[raw.page] \o PageNames[raw.idx],
                ServedParticipants)

\* getTeamMembers, line 144; getRepos, line 164 (paths below the base URL).
MemberURL(team) == [path |-> "/users/" \o team \o "/members", query |-> <<>>]
RepoURL(owner) == [path |-> "/repositories/" \o owner, query |-> <<>>]

\* getUserPRs, line 121; getReposPRs, line 135.
UserPRURL(m) == [path |-> "/pullrequests/" \o PathEscape(m.ID), query |-> <<>>]
RepoPRURL(user, r) ==
    [path |-> "/repositories/" \o user \o "/" \o r.Slug \o "/pullrequests", query |-> <<>>]

\* The fields selectors of getTeamMembers, getRepos and getPRs.
MemberFields == "values.uuid"
RepoFields == "values.name,values.full_name,values.slug"
PRFields == "values.id,...,values.task_count"

\* The fields selector of getPRs in part_002 (lines 189-193) and bitbucket.go
\* (lines 175-179), and the selector of version v.
PRFieldsOld == "values.id,...,values.links.html"
PRFieldsOf(v) == IF v = "part_001" THEN PRFields ELSE PRFieldsOld

\* The loops of getTeamMembers (152-159), getRepos (173-180) and getPRs
\* (204-212): the records parsed before the first one json.Unmarshal rejects.
GoodPrefixLen(raws) ==
    IF \E i \in DOMAIN raws : ~raws[i].ok
    THEN (CHOOSE i \in DOMAIN raws : ~raws[i].ok /\ \A j \in 1..(i - 1) : raws[j].ok) - 1
    ELSE Len(raws)

ParsedUsers(raws) == [i \in 1..GoodPrefixLen(raws) |-> UnmarshalUser(raws[i])]
ParsedRepos(raws) == [i \in 1..GoodPrefixLen(raws) |-> UnmarshalRepo(raws[i])]
ParsedPullRequests(raws) == [i \in 1..GoodPrefixLen(raws) |-> UnmarshalPR(raws[i])]

ParseFails(raws) == \E i \in DOMAIN raws : ~raws[i].ok

\* The answers of the server to a request of a Gather cycle: a failure, or a
\* page of at most maxn records, the last of which may be one json.Unmarshal
\* rejects; a page that has a next cursor is full.
ListingFailures ==
    { Response(TRUE, 0, FALSE, FALSE, <<>>, NoURL),
      Response(FALSE, 404, TRUE, TRUE, <<>>, NoURL),
      Response(FALSE, 200, TRUE, FALSE, <<>>, NoURL) }

WorkerFailures ==
    { Response(TRUE, 0, FALSE, FALSE, <<>>, NoURL),
      Response(FALSE, 404, TRUE, TRUE, <<>>, NoURL) }

GatherResponses(req, failures, more, maxn, tail) ==
    failures \cup
    { Response(FALSE, 200, TRUE, TRUE,
               RawRecords(req, n, IF lastBad THEN n ELSE 0), NoURL) :
        n \in 0..tail, lastBad \in BOOLEAN } \cup
    (IF more
     THEN { Response(FALSE, 200, TRUE, TRUE, RawRecords(req, maxn, 0),
                     MkURL(req.path, PageNo(req) + 1, PlainStyle)) }
     ELSE {})

\* An acc.AddError call.
AddError(p, e) == errors' = Append(errors, [by |-> p, err |-> e])

\* Mutant of Dispatch: an unknown gather type is gathered as a user.
DispatchDefaultUser(gt) ==
    IF gt = "team" THEN "team" ELSE IF gt = "repos" THEN "repos" ELSE "user"

\* Mutant of Dispatch: a user is gathered as a team of its own.
DispatchUserAsTeam(gt) ==
    IF gt = "team" \/ gt = "user" THEN "team"
    ELSE IF gt = "repos" THEN "repos"
    ELSE "invalid"

\* Gather, lines 82, 90, 98, 107: the branch taken for a gather type.
Dispatch(gt) ==
    IF gt = "team" THEN "team"
    ELSE IF gt = "user" THEN "user"
    ELSE IF gt = "repos" THEN "repos"
    ELSE "invalid"

\* Gather, lines 78-80: bb.client is created when it is nil.
\* Mutant of EnsureClient: every call of Gather makes a client of its own.
EnsureClientEveryCall ==
    client' = [addr |-> calls] @@ newClient(OAuthKey, OAuthSecret)

\* Gather, lines 78-80: bb.client is created when it is nil; addr tells the
\* *http.Client values apart by the call that allocated them.
EnsureClient ==
    client' = IF client = NilClient
              THEN [addr |-> calls] @@ newClient(OAuthKey, OAuthSecret)
              ELSE client

\* Gather, lines 82-83, and getTeamMembers, lines 144-146.
GatherTeam ==
    /\ pc[Coord] = "idle" /\ gatherRet = "running"
    /\ Dispatch(GatherType) = "team"
    /\ EnsureClient
    /\ PgEnter(Coord, MemberURL(Owner), MemberFields, "100")
    /\ UNCHANGED <<GatherType, calls, version, now, entities, launched, wg, mtx, parsedPRs, prs, errors,
                   emitted, gatherRet, fieldVars>>

\* Gather, lines 98-99, and getRepos, lines 164-167.
GatherRepos ==
    /\ pc[Coord] = "idle" /\ gatherRet = "running"
    /\ version = "part_001"
    /\ Dispatch(GatherType) = "repos"
    /\ EnsureClient
    /\ PgEnter(Coord, RepoURL(Owner), RepoFields, "100")
    /\ UNCHANGED <<GatherType, calls, version, now, entities, launched, wg, mtx, parsedPRs, prs, errors,
                   emitted, gatherRet, fieldVars>>

\* getUserPRs / getReposPRs, lines 116-119 and 130-133: the collector starts
\* with an empty result, wg.Add(len(entities)) and a free mutex.
EnterCollector(es) ==
    /\ entities' = es
    /\ prs' = <<>>
    /\ wg' = wg + Len(es)
    /\ mtx' = 0
    /\ launched' = 0
    /\ pc' = [pc EXCEPT ![Coord] = "spawn"]

\* Gather, lines 90-96: user mode gathers the one user bb.Owner.
GatherUser ==
    /\ pc[Coord] = "idle" /\ gatherRet = "running"
    /\ Dispatch(GatherType) = "user"
    /\ EnsureClient
    /\ EnterCollector(<< [ID |-> Owner, DisplayName |-> ""] >>)
    /\ UNCHANGED <<GatherType, calls, version, now, parsedPRs, errors, emitted, gatherRet, fieldVars,
                   reqArgs, currURL, values, reqs, resps, pgRet>>

\* Gather, lines 107-110: any other gather type is reported and returned.
GatherInvalid ==
    /\ pc[Coord] = "idle" /\ gatherRet = "running"
    /\ Dispatch(GatherType) = "invalid"
    /\ EnsureClient
    /\ AddError(Coord, "invalid gather_type")
    /\ gatherRet' = "err"
    /\ pc' = [pc EXCEPT ![Coord] = "returned"]
    /\ UNCHANGED <<GatherType, calls, version, now, entities, launched, wg, mtx, parsedPRs, prs, emitted,
                   fieldVars, reqArgs, currURL, values, reqs, resps, pgRet>>

\* Mutant of Resolve: with the error of an unparseable record, the entities
\* parsed before it are returned.
ResolvePrefix(r, gt) ==
    IF r.err # "" THEN [err |-> r.err, list |-> <<>>]
    ELSE [err |-> IF ParseFails(r.vals) THEN "unmarshal" ELSE "",
          list |-> IF gt = "repos" THEN ParsedRepos(r.vals) ELSE ParsedUsers(r.vals)]

\* Mutant of Resolve: an unparseable record ends the list without an error.
ResolveLenient(r, gt) ==
    IF r.err # "" THEN [err |-> r.err, list |-> <<>>]
    ELSE [err |-> "",
          list |-> IF gt = "repos" THEN ParsedRepos(r.vals) ELSE ParsedUsers(r.vals)]

\* getTeamMembers, lines 147-160, and getRepos, lines 168-182: the
\* (list, err) returned for what paginatedGet returned.
Resolve(r, gt) ==
    IF r.err # "" THEN [err |-> r.err, list |-> <<>>]
    ELSE IF ParseFails(r.vals) THEN [err |-> "unmarshal", list |-> <<>>]
    ELSE [err |-> "",
          list |-> IF gt = "repos" THEN ParsedRepos(r.vals) ELSE ParsedUsers(r.vals)]

\* Gather, lines 86 and 102: what Gather returns after a resolution error.
ResolveErrorReturn(gt) == IF gt = "team" THEN "err" ELSE "nil"

\* Gather, lines 83-88 and 99-105: the listing has returned; its error is
\* reported and Gather returns, or the collector is entered.
Resolved ==
    /\ pc[Coord] = "pgdone"
    /\ version = "part_001"
    /\ LET res == Resolve(pgRet[Coord], GatherType)
       IN  IF res.err # ""
           THEN /\ AddError(Coord, res.err)
                /\ gatherRet' = ResolveErrorReturn(GatherType)
                /\ pc' = [pc EXCEPT ![Coord] = "returned"]
                /\ UNCHANGED <<entities, prs, wg, mtx, launched>>
           ELSE /\ EnterCollector(res.list)
                /\ UNCHANGED <<errors, gatherRet>>
    /\ UNCHANGED <<GatherType, calls, version, now, client, parsedPRs, emitted, fieldVars,
                   reqArgs, currURL, values, reqs, resps, pgRet>>

\* The entities of the cycle are repositories: gather type "repos", which
\* bitbucket.go (lines 73-74) spells owner type "user".
ListsRepos == IF version = "bitbucket.go" THEN GatherType = "user" ELSE GatherType = "repos"

\* Mutant of osExit: the call returns to Gather's caller like a return.
osExitReturns(pcs) == [pcs EXCEPT ![Coord] = "returned"]

\* os.Exit(1) (part_002, line 120; bitbucket.go, line 110): the process
\* ends, and every goroutine with it.
osExit(pcs) == [p \in Procs |-> "exited"]

\* Gather of part_002 (lines 70-72, 83-84) with gatherRepos (line 117), and
\* Gather of bitbucket.go (lines 67-69, 73-74) with gatherUser (line 107):
\* the repositories of bb.Owner are listed.
GatherReposOld ==
    /\ pc[Coord] = "idle" /\ gatherRet = "running"
    /\ version # "part_001"
    /\ ListsRepos
    /\ EnsureClient
    /\ PgEnter(Coord, RepoURL(Owner), RepoFields, "100")
    /\ UNCHANGED <<GatherType, calls, version, now, entities, launched, wg, mtx, parsedPRs, prs,
                   errors, emitted, gatherRet, fieldVars>>

\* gatherRepos of part_002 (lines 117-126) and gatherUser of bitbucket.go
\* (lines 107-116): getRepos has returned; on its error the process exits,
\* else the collector is entered.
ResolvedOld ==
    /\ pc[Coord] = "pgdone"
    /\ version # "part_001"
    /\ LET res == Resolve(pgRet[Coord], "repos")
       IN  IF res.err # ""
           THEN /\ pc' = osExit(pc)
                /\ UNCHANGED <<entities, prs, wg, mtx, launched>>
           ELSE EnterCollector(res.list)
    /\ UNCHANGED <<GatherType, calls, version, now, client, parsedPRs, errors, emitted,
                   gatherRet, fieldVars, reqArgs, currURL, values, reqs, resps, pgRet>>

\* Mutant of EntityURL: every goroutine sees the first entity (the loop
\* variable is shared).
EntityURLOfFirst(e) ==
    IF ListsRepos THEN RepoPRURL(Owner, entities[1]) ELSE UserPRURL(entities[1])

\* The pull-request listing of an entity.
EntityURL(e) == IF ListsRepos THEN RepoPRURL(Owner, e) ELSE UserPRURL(e)

\* getUserPRs, lines 120-123, and getReposPRs, lines 134-137: one iteration,
\* `go bb.getPRs(prURL, ...)`; the goroutine starts in paginatedGet (line 197).
Launch ==
    /\ pc[Coord] = "spawn"
    /\ launched < Len(entities)
    /\ launched' = launched + 1
    /\ PgEnter(launched + 1, EntityURL(entities[launched + 1]), PRFieldsOf(version), "25")
    /\ UNCHANGED <<GatherType, calls, version, now, client, entities, wg, mtx, parsedPRs, prs, errors,
                   emitted, gatherRet, fieldVars>>

\* Mutant of WaitReturns: the collector stops waiting when one worker is
\* left.
WaitReturnsBeforeLast == wg <= 1

\* Mutant of WaitReturns: the collector does not wait.
WaitReturnsAtOnce == TRUE

\* wg.Wait(), lines 124 and 138: returns when the counter is zero.
WaitReturns == wg = 0

\* getUserPRs, lines 124-126: after the loop, wg.Wait() and return prs;
\* accumulatePRs starts with now := time.Now() (line 220).
Wait ==
    /\ pc[Coord] = "spawn"
    /\ launched = Len(entities)
    /\ WaitReturns
    /\ pc' = [pc EXCEPT ![Coord] = "emit"]
    /\ now' \in Times
    /\ UNCHANGED <<GatherType, calls, version, client, entities, launched, wg, mtx, parsedPRs,
                   prs, errors, emitted, gatherRet, fieldVars,
                   reqArgs, currURL, values, reqs, resps, pgRet>>

\* Mutant of RecordTime: the clock is read anew for every record.
RecordTimePerCall(t, i) == t + i

\* accumulatePRs, line 222: the timestamp handed to the i-th acc.AddFields
\* call, t being the local now.
RecordTime(t, i) == t

\* accumulatePRs, lines 221-223: one acc.AddFields call.
Emit ==
    /\ pc[Coord] = "emit"
    /\ Len(emitted) < Len(prs)
    /\ LET p == prs[Len(emitted) + 1]
       IN  emitted' = Append(emitted, [measurement |-> "bitbucket",
                                       fields |-> getPRFieldsOf(version, p),
                                       tags |-> getPRTags(p),
                                       t |-> RecordTime(now, Len(emitted) + 1)])
    /\ UNCHANGED <<GatherType, calls, version, now, client, entities, launched, wg, mtx, parsedPRs, prs,
                   errors, gatherRet, fieldVars, pgVars>>

\* Gather, line 112: return nil after accumulatePRs.
GatherReturn ==
    /\ pc[Coord] = "emit"
    /\ Len(emitted) = Len(prs)
    /\ gatherRet' = "nil"
    /\ pc' = [pc EXCEPT ![Coord] = "returned"]
    /\ UNCHANGED <<GatherType, calls, version, now, client, entities, launched, wg, mtx, parsedPRs, prs,
                   errors, emitted, fieldVars, reqArgs, currURL, values, reqs, resps, pgRet>>

\* --------------------------------------------------- getPRs (workers) ---
\* Mutant of ParseOutcome: a record that does not parse is skipped silently.
ParseOutcomeSkip(r) ==
    IF r.err # "" THEN [err |-> r.err, parsed |-> <<>>]
    ELSE [err |-> "", parsed |-> ParsedPullRequests(r.vals)]

\* getPRs, lines 197-212: the error to report, if any, and the local
\* parsedPRs, for what paginatedGet returned.
ParseOutcome(r) ==
    IF r.err # "" THEN [err |-> r.err, parsed |-> <<>>]
    ELSE IF ParseFails(r.vals)
    THEN [err |-> "unmarshal", parsed |-> ParsedPullRequests(r.vals)]
    ELSE [err |-> "", parsed |-> ParsedPullRequests(r.vals)]

\* Mutant of Parse: after reporting a record that does not parse, the worker
\* goes on to append the records parsed before it.
ParseKeepPrefix(w) ==
    /\ pc[w] = "pgdone"
    /\ LET o == ParseOutcome(pgRet[w])
       IN  /\ parsedPRs' = [parsedPRs EXCEPT ![w] = o.parsed]
           /\ IF o.err # ""
              THEN /\ AddError(w, o.err)
                   /\ pc' = [pc EXCEPT ![w] = IF pgRet[w].err = "" THEN "lock" ELSE "exit"]
              ELSE /\ errors' = errors
                   /\ pc' = [pc EXCEPT ![w] = "lock"]
    /\ UNCHANGED <<GatherType, calls, version, now, client, entities, launched, wg, mtx, prs,
                   emitted, gatherRet, fieldVars, reqArgs, currURL, values, reqs, resps,
                   pgRet>>

\* getPRs, lines 198-212: paginatedGet has returned; its error or the first
\* record that does not parse is reported and the worker returns, else the
\* worker goes on to mtx.Lock().
Parse(w) ==
    /\ pc[w] = "pgdone"
    /\ LET o == ParseOutcome(pgRet[w])
       IN  /\ parsedPRs' = [parsedPRs EXCEPT ![w] = o.parsed]
           /\ IF o.err # ""
              THEN /\ AddError(w, o.err)
                   /\ pc' = [pc EXCEPT ![w] = "exit"]
              ELSE /\ errors' = errors
                   /\ pc' = [pc EXCEPT ![w] = "lock"]
    /\ UNCHANGED <<GatherType, calls, version, now, client, entities, launched, wg, mtx, prs, emitted,
                   gatherRet, fieldVars, reqArgs, currURL, values, reqs, resps, pgRet>>

\* Mutant of MutexFree: mtx.Lock() never blocks.
MutexFreeAlways == TRUE

\* mtx.Lock(), line 214, returns only when no goroutine holds the mutex.
MutexFree == mtx = 0

\* getPRs, line 214: mtx.Lock().
Lock(w) ==
    /\ pc[w] = "lock"
    /\ MutexFree
    /\ mtx' = w
    /\ pc' = [pc EXCEPT ![w] = "append"]
    /\ UNCHANGED <<GatherType, calls, version, now, client, entities, launched, wg, parsedPRs, prs, errors,
                   emitted, gatherRet, fieldVars, reqArgs, currURL, values, reqs, resps,
                   pgRet>>

\* Mutant of AppendPRs: the worker's first record goes to the front of the
\* shared slice, the others to its end.
AppendPRsInterleaved(out, parsed) ==
    IF parsed = <<>> THEN out ELSE <<Head(parsed)>> \o out \o Tail(parsed)

\* Mutant of AppendPRs: the worker's records replace the shared slice.
AppendPRsOverwrite(out, parsed) == parsed

\* getPRs, line 215: append(*out, parsedPRs...).
AppendPRs(out, parsed) == out \o parsed

\* getPRs, line 215: *out = append(*out, parsedPRs...).
AppendOut(w) ==
    /\ pc[w] = "append"
    /\ prs' = AppendPRs(prs, parsedPRs[w])
    /\ pc' = [pc EXCEPT ![w] = "unlock"]
    /\ UNCHANGED <<GatherType, calls, version, now, client, entities, launched, wg, mtx, parsedPRs, errors,
                   emitted, gatherRet, fieldVars, reqArgs, currURL, values, reqs, resps,
                   pgRet>>

\* Mutant of Unlocked: the mutex stays with its holder.
UnlockedNever(holder) == holder

\* mtx.Unlock(), line 216: the mutex after its holder released it.
Unlocked(holder) == 0

\* getPRs, line 216: mtx.Unlock().
Unlock(w) ==
    /\ pc[w] = "unlock"
    /\ mtx' = Unlocked(mtx)
    /\ pc' = [pc EXCEPT ![w] = "exit"]
    /\ UNCHANGED <<GatherType, calls, version, now, client, entities, launched, wg, parsedPRs, prs, errors,
                   emitted, gatherRet, fieldVars, reqArgs, currURL, values, reqs, resps,
                   pgRet>>

\* Mutant of WgDone: the worker returns without wg.Done().
WgDoneMissing(n) == n

\* sync.WaitGroup.Done, line 187: the counter goes down by one.
WgDone(n) == n - 1

\* getPRs, line 187: the deferred wg.Done() as the worker returns.
Done(w) ==
    /\ pc[w] = "exit"
    /\ wg' = WgDone(wg)
    /\ pc' = [pc EXCEPT ![w] = "done"]
    /\ UNCHANGED <<GatherType, calls, version, now, client, entities, launched, mtx, parsedPRs, prs, errors,
                   emitted, gatherRet, fieldVars, reqArgs, currURL, values, reqs, resps,
                   pgRet>>

\* ------------------------------------------------- requests of a cycle ---
Send(p) ==
    /\ PgSend(p)
    /\ UNCHANGED <<gatherVars, fieldVars>>

\* The server answers the request p has in flight.
Recv(p) ==
    /\ pc[p] = "wait"
    /\ \E resp \in
          IF p = Coord
          THEN GatherResponses(LastReq(p), ListingFailures,
                               Len(reqs[p]) < MaxPages
                                   /\ Len(values[p]) + MaxRecs < MaxEntities,
                               MaxRecs,
                               Min(MaxRecs, MaxEntities - Len(values[p])))
          ELSE GatherResponses(LastReq(p), WorkerFailures, Len(reqs[p]) < MaxPages,
                               MaxPRs, MaxPRs) :
          PgRecv(p, resp)
    /\ UNCHANGED <<gatherVars, fieldVars>>

InitGather ==
    /\ InitCommon
    /\ GatherType \in GatherTypes
    /\ version = "part_001"

Next ==
    \/ GatherTeam \/ GatherUser \/ GatherRepos \/ GatherInvalid
    \/ Resolved \/ Launch \/ Wait \/ Emit \/ GatherReturn
    \/ \E p \in Procs : Send(p) \/ Recv(p)
    \/ \E w \in Workers : Parse(w) \/ Lock(w) \/ AppendOut(w) \/ Unlock(w) \/ Done(w)

Spec == InitGather /\ [][Next]_vars

\* A Bitbucket value whose gather type sends Gather through getUserPRs:
\* team (the members of bb.Owner) or user (bb.Owner alone).
InitUsers ==
    /\ InitCommon
    /\ GatherType \in {"team", "user"}
    /\ version = "part_001"

\* The goroutine of Gather in these modes, and the goroutine of worker w.
Coordinator ==
    \/ GatherTeam \/ GatherUser
    \/ Resolved \/ Launch \/ Wait \/ Emit \/ GatherReturn
    \/ Send(Coord) \/ Recv(Coord)

Worker(w) ==
    \/ Send(w) \/ Recv(w)
    \/ Parse(w) \/ Lock(w) \/ AppendOut(w) \/ Unlock(w) \/ Done(w)

NextUsers == Coordinator \/ \E w \in Workers : Worker(w)

\* The Go scheduler runs every goroutine that stays runnable, and every
\* request a goroutine waits on is answered: each goroutine that can
\* take a step without interruption takes one.  A worker in mtx.Lock() is
\* runnable only while the mutex is free, so nothing here promises it the
\* mutex while others keep taking it.
Fairness ==
    /\ WF_vars(Coordinator)
    /\ \A w \in Workers : WF_vars(Worker(w))

FairSpec == InitUsers /\ [][NextUsers]_vars /\ Fairness

\* Gather is called again on the same Bitbucket value, with the
\* accumulator of the new call; the locals of the call that returned are
\* gone, bb's fields are as the call left them.
GatherAgain ==
    /\ pc[Coord] = "returned"
    /\ calls < MaxCalls
    /\ calls' = calls + 1
    /\ pc' = [p \in Procs |-> "idle"]
    /\ reqArgs' = [p \in Procs |-> [reqURL |-> NoURL, fields |-> "", pagelen |-> ""]]
    /\ currURL' = [p \in Procs |-> NoURL]
    /\ values' = [p \in Procs |-> <<>>]
    /\ reqs' = [p \in Procs |-> <<>>]
    /\ resps' = [p \in Procs |-> <<>>]
    /\ pgRet' = [p \in Procs |-> NotReturned]
    /\ now' = 0
    /\ entities' = <<>>
    /\ launched' = 0
    /\ wg' = 0
    /\ mtx' = 0
    /\ parsedPRs' = [w \in Workers |-> <<>>]
    /\ prs' = <<>>
    /\ errors' = <<>>
    /\ emitted' = <<>>
    /\ gatherRet' = "running"
    /\ UNCHANGED <<GatherType, version, client, fieldVars>>

NextCycles ==
    \/ GatherTeam \/ GatherUser \/ GatherRepos \/ GatherInvalid
    \/ Resolved \/ Launch \/ Wait \/ Emit \/ GatherReturn
    \/ \E p \in Procs : Send(p) \/ Recv(p)
    \/ \E w \in Workers : Parse(w) \/ Lock(w) \/ AppendOut(w) \/ Unlock(w) \/ Done(w)
    \/ GatherAgain

\* Gather called up to MaxCalls times on one Bitbucket value.
SpecCycles == InitGather /\ [][NextCycles]_vars

\* The repository path of the three versions of the source: gather type
\* "repos" in part_001 and part_002, owner type "user" in bitbucket.go.
InitRepos ==
    /\ InitCommon
    /\ version \in Versions
    /\ GatherType = IF version = "bitbucket.go" THEN "user" ELSE "repos"

NextRepos ==
    \/ GatherRepos \/ GatherReposOld
    \/ Resolved \/ ResolvedOld
    \/ Launch \/ Wait \/ Emit \/ GatherReturn
    \/ \E p \in Procs : Send(p) \/ Recv(p)
    \/ \E w \in Workers : Parse(w) \/ Lock(w) \/ AppendOut(w) \/ Unlock(w) \/ Done(w)

SpecRepos == InitRepos /\ [][NextRepos]_vars

\* ------------------------------------------------------ Gather: claims ---
\* The workers of the cycle: one per resolved entity, in the entities' order.
Fanout == 1..Len(entities)

\* getUserPRs / getReposPRs has returned (Gather is in accumulatePRs).
CollectorReturned == pc[Coord] = "emit"

\* What the server did for entity w: one of its page requests failed.
FetchFailed(w) == \E i \in DOMAIN resps[w] : ~IsPage(resps[w][i])

\* What the server did for entity w: one of the records it served does not
\* parse as a pull request.
RecordMalformed(w) == ParseFails(PageValues(resps[w]))

\* The pull requests the server served for entity w.
ServedPRs(w) ==
    LET raws == SelectSeq(PageValues(resps[w]), LAMBDA raw : raw.ok)
    IN  [i \in DOMAIN raws |-> UnmarshalPR(raws[i])]

InResult(q) == \E i \in DOMAIN prs : prs[i] = q

ErrorsBy(w) == Len(SelectSeq(errors, LAMBDA e : e.by = w))

\* The statement of fan-out isolation for a set F of failed entities.
Isolation(F) ==
    /\ \A w \in Fanout \ F : \A i \in DOMAIN ServedPRs(w) : InResult(ServedPRs(w)[i])
    /\ \A w \in F : \A i \in DOMAIN ServedPRs(w) : ~InResult(ServedPRs(w)[i])
    /\ Len(errors) = Cardinality(F)

\* C3 (as claimed): with F the entities whose paginated fetch failed, the
\* collector returns every pull request of the entities outside F, none of
\* an entity in F, and exactly |F| errors were reported.
C3_IsolationFetchOnly ==
    CollectorReturned => Isolation({w \in Fanout : FetchFailed(w)})

\* C3 (amended): the same with F the entities whose paginated fetch failed
\* or one of whose fetched records does not parse as a pull request.
C3_Isolation ==
    CollectorReturned =>
        Isolation({w \in Fanout : FetchFailed(w) \/ RecordMalformed(w)})

\* C3 witness: 3 entities, exactly one of which got a non-2xx status, and the
\* other two contributed pull requests.
C3_Witness ==
    /\ CollectorReturned
    /\ Len(entities) = 3
    /\ Cardinality({w \in Fanout : FetchFailed(w)}) = 1
    /\ \E w \in Fanout : \E i \in DOMAIN resps[w] :
          ~resps[w][i].doErr /\ resps[w][i].StatusCode = 404
    /\ Cardinality({w \in Fanout : ~FetchFailed(w) /\ ~RecordMalformed(w)
                                   /\ Len(ServedPRs(w)) >= 1}) = 2
    /\ Len(errors) = 1

\* A worker goroutine that has been started and has not finished.
Running(w) == pc[w] \notin {"idle", "done"}

\* C4: the collector returns only when every worker it launched has
\* finished (and wg is back to zero); no acc.AddFields call happens while a
\* worker is running; and once acc.AddFields has been called no further
\* acc.AddError call is made in the cycle.
C4_JoinBarrier ==
    /\ [](pc[Coord] \in {"emit", "returned"} =>
              /\ \A w \in Workers : ~Running(w)
              /\ \A w \in Fanout : pc[w] = "done"
              /\ wg = 0)
    /\ [](emitted # <<>> => \A w \in Workers : ~Running(w))
    /\ [][emitted # <<>> => errors' = errors]_vars

\* C4 witness: records are being emitted after a cycle in which one worker
\* reported an error and another appended its records.
C4_Witness ==
    /\ emitted # <<>>
    /\ \E w \in Fanout : ErrorsBy(w) = 1
    /\ Len(entities) >= 2

\* The sum of f over the set S.
RECURSIVE SumOver(_, _)
SumOver(S, f) ==
    IF S = {} THEN 0
    ELSE LET x == CHOOSE x \in S : TRUE IN f[x] + SumOver(S \ {x}, f)

\* C5: when the collector returns, the merged collection holds as many
\* records as the pages of the entities whose fetch and parse both succeeded
\* hold together, and every other entity has an error reported.
C5_NoLostUpdates ==
    CollectorReturned =>
        LET ok == {w \in Fanout : ~FetchFailed(w) /\ ~RecordMalformed(w)}
        IN  /\ Len(prs) = SumOver(ok, [w \in Fanout |-> Len(PageValues(resps[w]))])
            /\ \A w \in Fanout \ ok : ErrorsBy(w) >= 1

\* C5 witness: two workers appended, one of them the records of two pages,
\* and a third entity failed.
C5_Witness ==
    /\ CollectorReturned
    /\ Len(entities) = 3
    /\ Len(prs) = 3
    /\ \E w \in Fanout : FetchFailed(w) \/ RecordMalformed(w)

ValidGatherTypes == {"team", "user", "repos"}

\* C6: with a gather type other than team, user and repos, the cycle issues
\* no request and calls acc.AddFields never, and Gather returns a non-nil
\* error after exactly one acc.AddError call.
C6_InvalidGatherType ==
    GatherType \notin ValidGatherTypes =>
        /\ \A p \in Procs : reqs[p] = <<>> /\ pc[p] \notin {"send", "wait"}
        /\ emitted = <<>>
        /\ IF pc[Coord] = "returned"
           THEN Len(errors) = 1 /\ gatherRet = "err"
           ELSE errors = <<>> /\ gatherRet = "running"

\* C6 witness: Gather has returned for the gather type "pepperoni".
C6_Witness ==
    /\ GatherType = "pepperoni"
    /\ pc[Coord] = "returned"
    /\ Len(errors) = 1

\* The entity listing of the cycle failed: a page request failed, or a
\* record of the listing does not parse.
ListingFailed ==
    /\ GatherType \in {"team", "repos"}
    /\ pgRet[Coord].done
    /\ ~AllPages(resps[Coord]) \/ ParseFails(PageValues(resps[Coord]))

\* C8: when the entity listing fails in team or repos mode, no worker is
\* launched, no pull-request request is issued, acc.AddFields is never
\* called, and the cycle ends with exactly one acc.AddError call.
C8_ResolutionError ==
    ListingFailed =>
        /\ \A w \in Workers : pc[w] = "idle" /\ reqs[w] = <<>>
        /\ launched = 0
        /\ emitted = <<>>
        /\ IF pc[Coord] = "returned"
           THEN Len(errors) = 1
           ELSE pc[Coord] = "pgdone" /\ errors = <<>>

\* C8 witness: both modes' cycles can end on a failed listing, on its
\* second page or on a record that does not parse.
C8_Witness ==
    /\ ListingFailed
    /\ pc[Coord] = "returned"
    /\ Len(resps[Coord]) = 2
    /\ GatherType = "repos"

\* C9 (as claimed): Gather returns a non-nil error exactly when the gather
\* type is invalid.
C9_ErrorOnlyForInvalidType ==
    pc[Coord] = "returned" =>
        (gatherRet = "err" <=> GatherType \notin ValidGatherTypes)

\* Entity w was fetched and parsed without failure.
Succeeded(w) == ~FetchFailed(w) /\ ~RecordMalformed(w)

\* C13: acc.AddFields is called once per pull request of the merged
\* collection, in its order - never more calls than records, and as many
\* when Gather has returned - each call with measurement "bitbucket", the
\* fields and tags of its pull request (state verbatim, source_repo the
\* source repository's slug) and the one timestamp of the cycle; in team
\* mode, two members with one pull request each give exactly two records
\* and no error.
C13_Emission ==
    /\ Len(emitted) <= Len(prs)
    /\ \A i \in DOMAIN emitted :
          /\ emitted[i].measurement = "bitbucket"
          /\ emitted[i].fields = getPRFields(prs[i])
          /\ emitted[i].tags = getPRTags(prs[i])
          /\ emitted[i].tags.state = prs[i].State
          /\ emitted[i].tags.source_repo = prs[i].Source.Repository.Slug
          /\ emitted[i].t = emitted[1].t
          /\ emitted[i].t \in Times
    /\ pc[Coord] = "returned" => Len(emitted) = Len(prs)
    /\ (/\ pc[Coord] = "returned"
        /\ GatherType = "team"
        /\ pgRet[Coord].done /\ ~ListingFailed
        /\ Len(entities) = 2
        /\ \A w \in Fanout : Succeeded(w) /\ Len(ServedPRs(w)) = 1)
       => Len(emitted) = 2 /\ emitted[1] # emitted[2] /\ errors = <<>>

\* C13 witness: Gather returned in team mode after two members' one pull
\* request each were emitted.
C13_Witness ==
    /\ pc[Coord] = "returned"
    /\ GatherType = "team"
    /\ Len(entities) = 2
    /\ \A w \in Fanout : Succeeded(w) /\ Len(ServedPRs(w)) = 1
    /\ Len(emitted) = 2
    /\ emitted[1].fields.link # emitted[2].fields.link
    /\ emitted[1].t = emitted[2].t

\* The request goes to an entity listing (members or repositories).
IsListingRequest(req) == req.path \in {MemberURL(Owner).path, RepoURL(Owner).path}

C14_FailureReached ==
    /\ GatherType = "user"
    /\ pc[Coord] = "returned"
    /\ FetchFailed(1)

\* C15 (as claimed): every request of a Gather cycle is performed by a
\* client whose timeout is the configured HTTPTimeout.
C15_ClientTimeout ==
    \A p \in Procs :
        reqs[p] # <<>> => (~client.isNil /\ client.Timeout = HTTPTimeout)

\* getRepos has returned an error.
GetReposError ==
    /\ ListsRepos
    /\ pgRet[Coord].done
    /\ Resolve(pgRet[Coord], "repos").err # ""

\* C17: after a getRepos error, part_002 and bitbucket.go end the process
\* with no acc.AddError call and without Gather returning, while part_001
\* calls acc.AddError exactly once and Gather returns nil, the process going
\* on; in no version is a worker launched or a record emitted.
C17_ReposListingFailure ==
    GetReposError =>
        /\ launched = 0 /\ emitted = <<>>
        /\ \A w \in Workers : reqs[w] = <<>>
        /\ IF version = "part_001"
           THEN IF pc[Coord] = "returned"
                THEN Len(errors) = 1 /\ gatherRet = "nil" /\ \A w \in Workers : pc[w] = "idle"
                ELSE pc[Coord] = "pgdone" /\ errors = <<>>
           ELSE /\ errors = <<>>
                /\ gatherRet = "running"
                /\ \/ pc[Coord] = "pgdone"
                   \/ \A p \in Procs : pc[p] = "exited"

\* C17 witness: part_002 exited on a non-2xx status of the second page of
\* the repository listing.
C17_Witness ==
    /\ version = "part_002"
    /\ GetReposError
    /\ pc[Coord] = "exited"
    /\ Len(resps[Coord]) = 2
    /\ resps[Coord][2].StatusCode = 404

\* The other two versions' cases of C17.
C17_ReachedBitbucketGo ==
    version = "bitbucket.go" /\ GetReposError /\ pc[Coord] = "exited"

C17_ReachedPart001 ==
    version = "part_001" /\ GetReposError /\ pc[Coord] = "returned"

\* Worker w is between mtx.Lock() and mtx.Unlock() (lines 214-216).
InAppend(w) == pc[w] \in {"append", "unlock"}

\* C18: at most one worker is inside the append to the shared slice, and it
\* holds the mutex; every write to the slice is the append of the worker
\* holding the mutex; and the coordinator takes the slice (the return of
\* wg.Wait, then every acc.AddFields) only when no worker is running, and
\* the slice does not change while it reads.
C18_MutualExclusion ==
    /\ [](Cardinality({w \in Workers : InAppend(w)}) <= 1)
    /\ [](\A w \in Workers : InAppend(w) => mtx = w)
    /\ [][prs' # prs =>
             \E w \in Workers : mtx = w /\ pc[w] = "append" /\ pc'[w] = "unlock"]_vars
    /\ [][(pc[Coord] = "spawn" /\ pc'[Coord] = "emit") =>
             wg = 0 /\ \A w \in Workers : ~Running(w)]_vars
    /\ [][emitted' # emitted =>
             prs' = prs /\ mtx = 0 /\ \A w \in Workers : ~Running(w)]_vars

\* C18 witness: one worker is inside the append while another waits for the
\* mutex and a third has already appended.
C18_Witness ==
    /\ \E w \in Workers : pc[w] = "append" /\ mtx = w
    /\ \E w \in Workers : pc[w] = "lock"
    /\ prs # <<>>

\* C19: the mutex is held only by a worker inside the append, whose whole
\* fetch and parse succeeded - never by a worker with a request in flight,
\* parsing, reporting an error, finished or failed; and a worker that is
\* about to send can send, and one waiting for the mutex waits only for a
\* worker inside the append, whatever the other workers' requests do.
C19_LockScope ==
    \A w \in Workers :
        /\ mtx = w =>
              /\ InAppend(w)
              /\ pgRet[w].done /\ pgRet[w].err = ""
              /\ Succeeded(w)
              /\ parsedPRs[w] = ServedPRs(w)
        /\ pc[w] \in {"idle", "send", "wait", "pgdone", "lock", "exit", "done"} => mtx # w
        /\ (FetchFailed(w) \/ RecordMalformed(w)) => mtx # w /\ ~InAppend(w)
        /\ pc[w] = "send" => ENABLED Send(w)
        /\ pc[w] = "lock" =>
              \/ ENABLED Lock(w)
              \/ mtx \in Workers \ {w} /\ InAppend(mtx)

\* C19 witness: a worker holds the mutex while a second has a request in
\* flight and a third has failed and finished.
C19_Witness ==
    /\ \E w \in Workers : mtx = w /\ pc[w] = "append"
    /\ \E w \in Workers : pc[w] = "wait"
    /\ \E w \in Workers : pc[w] = "done" /\ FetchFailed(w) /\ ErrorsBy(w) = 1

\* The chain of worker w ran to its end: every request was answered, and the
\* last answer is a failure or a page without next cursor.
ChainComplete(w) ==
    /\ resps[w] # <<>>
    /\ Len(reqs[w]) = Len(resps[w])
    /\ LET last == resps[w][Len(resps[w])]
       IN  ~IsPage(last) \/ last.next = NoURL

\* C20: the requests of a worker are those of its own entity's listing and
\* its own pages' next cursors, whatever its siblings did; a worker that is
\* about to send can send, errors reported or not; and when the collector
\* returns, every worker's chain ran to its end and every worker that
\* succeeded has its records in the result, whichever siblings failed.
C20_NoCancellation ==
    /\ \A w \in Workers :
          /\ pc[w] # "idle" => reqArgs[w].reqURL = EntityURL(entities[w])
          /\ \A i \in DOMAIN reqs[w] :
                reqs[w][i] = BuildRequest(SourceURL(w, i), PRFields, "25")
          /\ \A i \in DOMAIN resps[w] :
                (i < Len(resps[w]) \/ pc[w] \notin {"wait", "send"}) =>
                    (IsPage(resps[w][i]) /\ resps[w][i].next # NoURL => Len(reqs[w]) > i)
          /\ pc[w] = "send" => ENABLED Send(w)
    /\ CollectorReturned =>
          \A w \in Fanout :
              /\ ChainComplete(w)
              /\ Succeeded(w) =>
                    \A i \in DOMAIN ServedPRs(w) : InResult(ServedPRs(w)[i])

\* C20 witness: the collector returned after the first worker failed on its
\* first request and the other two fetched two pages each and appended.
C20_Witness ==
    /\ CollectorReturned
    /\ Len(entities) = 3
    /\ errors # <<>> /\ errors[1].by = 1 /\ Len(reqs[1]) = 1
    /\ \A w \in {2, 3} : Len(reqs[w]) = 2 /\ Succeeded(w)
    /\ Len(prs) = 4

\* On the way to it: an error has been reported while a sibling has yet to
\* issue its first request.
C20_ErrorBeforeSiblingRequest ==
    /\ errors # <<>>
    /\ \E w \in Fanout : pc[w] = "send" /\ reqs[w] = <<>>

\* Worker w has run its parse loop (lines 203-212) to its end or its abort.
Parsed(w) == pc[w] \in {"lock", "append", "unlock", "exit", "done"}

\* C21: a worker whose fetch succeeded but one of whose records does not
\* parse never holds the mutex and is never inside the append; once its
\* parse loop has ended it has reported exactly one error, and none of the
\* records served to it - those parsed before the malformed one included -
\* is in the shared collection; and every sibling that succeeded and has
\* finished has all its records there.
C21_ParseAbort ==
    \A w \in Workers :
        (~FetchFailed(w) /\ RecordMalformed(w)) =>
            /\ mtx # w /\ ~InAppend(w) /\ pc[w] # "lock"
            /\ ErrorsBy(w) = IF Parsed(w) THEN 1 ELSE 0
            /\ \A i \in DOMAIN ServedPRs(w) : ~InResult(ServedPRs(w)[i])
            /\ Parsed(w) => parsedPRs[w] = ParsedPullRequests(PageValues(resps[w]))
            /\ \A v \in Workers \ {w} :
                  (Succeeded(v) /\ pc[v] \in {"exit", "done"}) =>
                      \A i \in DOMAIN ServedPRs(v) : InResult(ServedPRs(v)[i])

\* C21 witness: the second record fetched for an entity is malformed; the
\* worker had parsed the first, has finished, and a sibling has appended.
C21_Witness ==
    \E w \in Fanout :
        /\ pc[w] = "done"
        /\ ~FetchFailed(w)
        /\ Len(PageValues(resps[w])) = 2
        /\ PageValues(resps[w])[1].ok /\ ~PageValues(resps[w])[2].ok
        /\ Len(parsedPRs[w]) = 1
        /\ ErrorsBy(w) = 1
        /\ prs # <<>>

\* The raw records of the entity listing, and the entity of each.
ListingRecords == PageValues(resps[Coord])

ExpectedEntities ==
    [i \in DOMAIN ListingRecords |->
        IF GatherType = "repos" THEN UnmarshalRepo(ListingRecords[i])
        ELSE UnmarshalUser(ListingRecords[i])]

\* C22: in team and repos mode the listing is one paginatedGet call on the
\* listing URL (its pages are requested once each, in order, and by the
\* coordinator only); when it has returned, getTeamMembers / getRepos gives
\* an error and an empty list if a page request failed or a record does not
\* parse, and otherwise no error and the entity of every raw record, in
\* order - which is the list the collector then works on.
C22_ResolverFailFast ==
    GatherType \in {"team", "repos"} =>
        /\ pc[Coord] # "idle" =>
              /\ reqArgs[Coord].reqURL =
                     (IF GatherType = "repos" THEN RepoURL(Owner) ELSE MemberURL(Owner))
              /\ reqArgs[Coord].pagelen = "100"
        /\ \A i \in DOMAIN reqs[Coord] :
              PageNo(reqs[Coord][i]) = i /\ IsListingRequest(reqs[Coord][i])
        /\ \A w \in Workers : \A i \in DOMAIN reqs[w] : ~IsListingRequest(reqs[w][i])
        /\ pgRet[Coord].done =>
              LET res == Resolve(pgRet[Coord], GatherType)
              IN  IF ~AllPages(resps[Coord]) \/ ParseFails(ListingRecords)
                  THEN res.err # "" /\ res.list = <<>> /\ entities = <<>>
                  ELSE /\ res.err = ""
                       /\ res.list = ExpectedEntities
                       /\ Len(res.list) = Len(ListingRecords)
                       /\ pc[Coord] # "pgdone" => entities = ExpectedEntities

\* C22 witness: the member listing brought two pages, and the last of its
\* three records does not parse; Gather has returned.
C22_Witness ==
    /\ GatherType = "team"
    /\ pc[Coord] = "returned"
    /\ AllPages(resps[Coord]) /\ Len(resps[Coord]) = 2
    /\ Len(ListingRecords) = 3
    /\ GoodPrefixLen(ListingRecords) = 2
    /\ entities = <<>>

\* The success case of C22: three repositories resolved from two pages.
C22_ResolvedReached ==
    /\ GatherType = "repos"
    /\ Len(resps[Coord]) = 2
    /\ Len(entities) = 3
    /\ entities = ExpectedEntities

\* How many requests of the cycle ask for the first page of URL u.
SeedRequests(u) ==
    SumOver(Procs, [p \in Procs |->
        Len(SelectSeq(reqs[p], LAMBDA r : r.path = u.path /\ PageNo(r) = 1))])

\* The identifier of entity e as its pull-request listing's path spells it.
SeedPath(e) ==
    IF GatherType = "repos" THEN "/repositories/" \o Owner \o "/" \o e.Slug \o "/pullrequests"
    ELSE "/pullrequests/" \o PathEscape(e.ID)

\* C24: the workers launched are the first `launched` of N = Len(entities),
\* all N once the loop has ended; worker i was given the listing of entity i
\* and of no other; and the first page of every entity's listing is
\* requested at most once, by its own worker - exactly once when the
\* collector has returned.
C24_OneTaskPerEntity ==
    /\ launched <= Len(entities)
    /\ \A w \in Workers : pc[w] # "idle" <=> w <= launched
    /\ \A w \in 1..launched :
          /\ reqArgs[w].reqURL.path = SeedPath(entities[w])
          /\ \A v \in Fanout \ {w} : reqArgs[w].reqURL.path # SeedPath(entities[v])
          /\ \A i \in DOMAIN reqs[w] : reqs[w][i].path = SeedPath(entities[w])
    /\ \A w \in Fanout :
          SeedRequests(EntityURL(entities[w])) = IF reqs[w] # <<>> THEN 1 ELSE 0
    /\ pc[Coord] \in {"emit", "returned"} =>
          /\ launched = Len(entities)
          /\ \A w \in Fanout : SeedRequests(EntityURL(entities[w])) = 1

\* C24 witness: three entities, and all three workers have their first
\* request in flight at once.
C24_Witness ==
    /\ Len(entities) = 3
    /\ \A w \in Fanout : pc[w] = "wait" /\ Len(reqs[w]) = 1

\* A paginatedGet call run alone: with arguments args, at currURL u with
\* accumulator vals, served the responses rs in turn.  reqs are the requests
\* it sends, ret what it returns (NotReturned while it waits for an answer).
RECURSIVE RunAlone(_, _, _, _)
RunAlone(args, u, vals, rs) ==
    IF u = BadURL THEN [ret |-> RetErr("badurl"), reqs |-> <<>>]
    ELSE LET req == BuildRequest(u, args.fields, args.pagelen)
         IN  IF rs = <<>> THEN [ret |-> NotReturned, reqs |-> <<req>>]
             ELSE LET h == HandleResponse(vals, Head(rs))
                  IN  IF h.ret.done THEN [ret |-> h.ret, reqs |-> <<req>>]
                      ELSE LET rest == RunAlone(args, h.next, h.values, Tail(rs))
                           IN  [ret |-> rest.ret, reqs |-> <<req>> \o rest.reqs]

\* Goroutine p has called paginatedGet.
Called(p) == reqArgs[p].reqURL # NoURL

\* C25: for every goroutine that has called paginatedGet, whatever the other
\* calls did meanwhile, the requests it sent and the value it returned are
\* those of the same call run alone on the responses it received (its next
\* request being the only one not yet sent), and its accumulator and result
\* hold records of its own listing only.
C25_PaginatorIndependence ==
    \A p \in Procs :
        Called(p) =>
            LET alone == RunAlone(reqArgs[p], reqArgs[p].reqURL, <<>>, resps[p])
            IN  /\ pgRet[p] = (IF pc[p] = "send" THEN NotReturned ELSE alone.ret)
                /\ IF pc[p] = "send"
                   THEN reqs[p] = SubSeq(alone.reqs, 1, Len(alone.reqs) - 1)
                   ELSE reqs[p] = alone.reqs
                /\ \A i \in DOMAIN values[p] : values[p][i].src = reqArgs[p].reqURL.path
                /\ \A i \in DOMAIN pgRet[p].vals :
                      pgRet[p].vals[i].src = reqArgs[p].reqURL.path
                /\ pgRet[p].done /\ pgRet[p].err = "" => pgRet[p].vals = PageValues(resps[p])

\* C25 witness: two calls have received their first page each and both are
\* about to ask for the second, a third has returned two pages' records.
C25_Witness ==
    /\ \E v, w \in Workers :
          /\ v # w
          /\ pc[v] = "send" /\ pc[w] = "send"
          /\ Len(resps[v]) = 1 /\ Len(resps[w]) = 1
          /\ values[v] # <<>> /\ values[w] # <<>>
    /\ \E u \in Workers : pgRet[u].done /\ Len(pgRet[u].vals) = 2

\* The workers of the call that succeeded.
SucceededWorkers == {w \in Fanout : Succeeded(w)}

\* C26: over the calls of Gather on one Bitbucket value the gather type is
\* the configured one and bb.client, once a call has begun, is the client
\* the first call made - no later call makes another; and when a call
\* returns, its records are those of the pull requests served during this
\* call to the workers that succeeded, and its errors those of this call's
\* failures, whatever the calls before it fetched.
C26_StateAcrossCalls ==
    /\ GatherType \in GatherTypes
    /\ calls \in 1..MaxCalls
    /\ (pc[Coord] # "idle" \/ calls > 1) => (~client.isNil /\ client.addr = 1)
    /\ client.isNil => (calls = 1 /\ pc[Coord] = "idle")
    /\ pc[Coord] = "returned" =>
          /\ Len(emitted) =
                 SumOver(SucceededWorkers, [w \in Fanout |-> Len(ServedPRs(w))])
          /\ \A i \in DOMAIN emitted :
                \E w \in SucceededWorkers : \E j \in DOMAIN ServedPRs(w) :
                    emitted[i].fields = getPRFields(ServedPRs(w)[j])
          /\ Len(errors) =
                 Cardinality(Fanout \ SucceededWorkers)
                 + (IF ListingFailed \/ GatherType \notin ValidGatherTypes THEN 1 ELSE 0)

\* C26 witness: the second call has returned with records emitted and an
\* error reported, on the client the first call made.
C26_Witness ==
    /\ calls = 2
    /\ pc[Coord] = "returned"
    /\ emitted # <<>>
    /\ errors # <<>>
    /\ client.addr = 1

\* The lock-free design: worker w returns its own record list (none with an
\* error), computed from its entity's listing and the responses it got.
WorkerResult(w) ==
    LET alone == RunAlone([reqURL |-> EntityURL(entities[w]), fields |-> PRFields,
                           pagelen |-> "25"],
                          EntityURL(entities[w]), <<>>, resps[w])
        o == ParseOutcome(alone.ret)
    IN  IF o.err # "" THEN [list |-> <<>>, err |-> o.err]
        ELSE [list |-> o.parsed, err |-> ""]

\* The lock-free design: the coordinator concatenates the workers' lists
\* after the join, taking the workers in the given order.
Concatenated(order) == Flatten([i \in DOMAIN order |-> WorkerResult(order[i]).list])

\* C27: when the mutex-based collector returns, its collection is the
\* concatenation of the lock-free workers' lists in some order of the
\* workers, and each worker has reported exactly the error the lock-free
\* worker returns.
C27_LockFreeEquivalence ==
    CollectorReturned =>
        /\ \E order \in Permutations(Fanout) : prs = Concatenated(order)
        /\ \A w \in Fanout :
              SelectSeq(errors, LAMBDA e : e.by = w) =
                  (IF WorkerResult(w).err # ""
                   THEN << [by |-> w, err |-> WorkerResult(w).err] >> ELSE <<>>)
        /\ \A i \in DOMAIN errors : errors[i].by \in Fanout

\* C27 witness: the collector returned the lists of three workers in an
\* order that is not the order of the entities, one list being empty
\* because its worker failed.
C27_Witness ==
    /\ CollectorReturned
    /\ Len(entities) = 3
    /\ prs # <<>>
    /\ prs # Concatenated(<<1, 2, 3>>)
    /\ \E w \in Fanout : WorkerResult(w).err # ""

\* Worker w has called wg.Done().
WorkerDone(w) == pc[w] = "done"

\* The worker's way out of getPRs: the fetch failed (line 200), a record
\* did not parse (line 209), or the list was appended (line 216).
ExitPath(w) ==
    IF FetchFailed(w) THEN "fetch error"
    ELSE IF RecordMalformed(w) THEN "parse error" ELSE "append"

\* The collector got an empty entity list from a listing that succeeded.
NoEntities ==
    /\ pc[Coord] \in {"spawn", "emit", "returned"}
    /\ entities = <<>>
    /\ errors = <<>>

\* The counter of the WaitGroup is the number of workers that have not
\* called wg.Done(): never negative, zero exactly when all have; a worker
\* that is done stays done, so each decrement is one worker's only one.
WaitGroupCounts ==
    /\ wg >= 0
    /\ wg = Len(entities) - Cardinality({w \in Fanout : WorkerDone(w)})
    /\ \A w \in Workers : WorkerDone(w) => w \in Fanout /\ w <= launched
    /\ (pc[Coord] = "spawn" /\ launched = Len(entities)) =>
           (WaitReturns <=> \A w \in Fanout : WorkerDone(w))
    /\ NoEntities =>
           /\ wg = 0 /\ prs = <<>> /\ emitted = <<>>
           /\ \A w \in Workers : reqs[w] = <<>> /\ pc[w] = "idle"

\* C28: with every request answered and every goroutine scheduled, the
\* WaitGroup counter counts the workers still to call wg.Done() (never
\* below zero, zero exactly when all are done), every launched worker
\* calls wg.Done() once on whichever path it leaves getPRs, a worker
\* waiting for the mutex gets it, and Gather returns; with no entity it
\* returns with no request, no error and no record.
C28_Termination ==
    /\ []WaitGroupCounts
    /\ [][\A w \in Workers : WorkerDone(w) => WorkerDone(w)']_vars
    /\ \A w \in Workers : []<>(pc[w] # "lock")
    /\ <>(pc[Coord] = "returned" /\ wg = 0 /\ \A w \in Fanout : WorkerDone(w))

\* C28 witness: Gather returned after three workers left getPRs on the
\* three paths.
C28_Witness ==
    /\ pc[Coord] = "returned"
    /\ Len(entities) = 3
    /\ \A w \in Fanout : WorkerDone(w)
    /\ {ExitPath(w) : w \in Fanout} = {"fetch error", "parse error", "append"}

\* C28: Gather returned from a cycle whose listing succeeded with no
\* entity.
C28_EmptyReached == pc[Coord] = "returned" /\ NoEntities /\ pgRet[Coord].done

\* Worker w has appended its list to the shared slice.
HasAppended(w) == Succeeded(w) /\ pc[w] \in {"unlock", "exit", "done"}

\* The orders in which the members of S can follow each other.
Orderings(S) ==
    {o \in [1..Cardinality(S) -> S] : \A i, j \in DOMAIN o : o[i] = o[j] => i = j}

\* The records of the workers of an order, block after block, each block in
\* the order the entity's pages served its records.
Blocks(order) == Flatten([i \in DOMAIN order |-> ServedPRs(order[i])])

BagOfSeq(s) ==
    [x \in {s[i] : i \in DOMAIN s} |-> Cardinality({i \in DOMAIN s : s[i] = x})]

\* The record acc.AddFields gets for pull request p.
RecordOf(p) ==
    [measurement |-> "bitbucket", fields |-> getPRFields(p), tags |-> getPRTags(p),
     t |-> now]

\* The records of a cycle, taking the entities that succeeded in the order
\* of the entity list.
RecordsInEntityOrder ==
    LET all == Flatten([w \in Fanout |-> IF Succeeded(w) THEN ServedPRs(w) ELSE <<>>])
    IN  [i \in DOMAIN all |-> RecordOf(all[i])]

\* C29: at every moment the shared slice is whole blocks, one for each
\* worker that has appended, each block the entity's records in the order
\* its pages served them; and the records Gather has emitted when it
\* returns are, as a multiset, the records of the succeeded entities,
\* whatever the order in which the workers appended.
C29_WholeBlocks ==
    /\ pc[Coord] \in {"spawn", "emit", "returned"} =>
           \E order \in Orderings({w \in Fanout : HasAppended(w)}) : prs = Blocks(order)
    /\ pc[Coord] = "returned" => BagOfSeq(emitted) = BagOfSeq(RecordsInEntityOrder)

\* C29 witness: Gather returned the records of two entities, one with two
\* records, the later entity's block first.
C29_Witness ==
    /\ pc[Coord] = "returned"
    /\ \E v, w \in SucceededWorkers :
          /\ v < w
          /\ Len(ServedPRs(v)) + Len(ServedPRs(w)) >= 3
          /\ ServedPRs(v) # <<>> /\ ServedPRs(w) # <<>>
          /\ \E i, j \in DOMAIN prs :
                i < j /\ prs[i] = ServedPRs(w)[1] /\ prs[j] = ServedPRs(v)[1]
    /\ Len(emitted) = Len(prs)
====
